---- MODULE Spec2Model ----
(***************************************************************************)
(* Real-time subscription and price-aggregation core of the DLMM           *)
(* dashboard: RateLimiter and fetchWithFallback (utils/walletSecurity.ts), *)
(* WebSocketService and PriceService (services/websocketService.ts),       *)
(* TokenService.getTokenPrices (services/tokenService.ts) and the hooks    *)
(* useRealTimePositions and useWalletData.                                 *)
(*                                                                         *)
(* Each component has its own specification over the shared variable list: *)
(*   SpecRL  - RateLimiter                                                 *)
(*   SpecWS  - WebSocketService + useRealTimePositions                     *)
(*   SpecWSLive - SpecWS with the timers of setTimeout firing              *)
(*   SpecWSApi - the subscribe operations of WebSocketService and the      *)
(*              closures they return, driven by a client                   *)
(*   SpecWSLoops - the monitor with overlapping reconnection loops         *)
(*   SpecWSLife - the monitor, the loops, a client, and the singleton's    *)
(*              destruction and re-creation                                *)
(*   SpecPC  - PriceService: price cache, getPrice, getPrices              *)
(*   SpecPSub - PriceService: subscribe, unsubscribe, interval ticks       *)
(*   SpecPDispatch - SpecPSub with callbacks that cancel themselves        *)
(*   SpecTS  - TokenService.getTokenPrices                                 *)
(*   SpecF   - fetchWithFallback                                           *)
(*   SpecWD  - useWalletData.refreshData                                   *)
(***************************************************************************)
EXTENDS Integers, Sequences, FiniteSets, TLC

VARIABLES
  \* ---- RateLimiter ----
  rlNow,        \* Date.now() as seen by the limiter
  calls,        \* RateLimiter.calls : timestamps of retained admitted calls
  admitted,     \* history: timestamps of every call that returned true
  rlLast,       \* history: outcome of the last limiter operation
  rlRet,        \* what the last limiter query returned (-1: no query yet)
  \* ---- WebSocketService ----
  isConnected,        \* WebSocketService.isConnected
  reconnectAttempts,  \* WebSocketService.reconnectAttempts
  subscriptions,      \* WebSocketService.subscriptions, in Map insertion order
  listeners,          \* upstream: live account-change listeners [id, key]
  nextId,             \* upstream: next listener id handed out
  removeCalls,        \* upstream: removeAccountChangeListener calls per id
  timers,             \* pending backoff timers set by handleReconnection
  passes,             \* re-subscription passes suspended at an await
  hookPc,             \* useRealTimePositions.subscribeToPositions position
  hookTodo,           \* position accounts it still has to subscribe
  hookAcc,            \* unsubscribeFunctions inside service.subscribeToPositions
  hookRef,            \* unsubscribeFunctionsRef.current
  emitted,            \* events emitted by the last handler
  lastOp,             \* the handler that ran last
  connLog,            \* history: last connected/disconnected event
  ep,                 \* history: the current undisturbed disconnect episode
  snap,               \* history: the keys the first teardown of the episode captured
  failedSeen,         \* history: reconnection-failed has been emitted
  held,               \* unsubscribe closures kept by a client of the service
  invoked,            \* the closures of held that were invoked at least once
  sigListeners,       \* upstream: live signature listeners (ids)
  nextSig,            \* upstream: next signature listener id
  \* ---- PriceService ----
  pNow,            \* Date.now() as seen by the price service
  priceCache,      \* PriceService.priceCache : mint -> PriceData or NoEntry
  pythReady,       \* pythClient !== null && isInitialized
  inflight,        \* getPrice / getPrices calls suspended at an upstream await
  psSubs,          \* PriceService.subscriptions : mint -> list of subscriptions
  updateIntervals, \* PriceService.updateIntervals : mint -> interval id
  liveTimers,      \* scheduler: intervals set and not cleared, [id, mint]
  nextTimer,       \* scheduler: next interval id
  nextSub,         \* identity of the next PriceSubscription object
  pHandles,        \* unsubscribe closures returned to callers, [sub, mint]
  pRet,            \* what the last completed getPrice / getPrices returned
  delivered,       \* subscriptions whose callback the last step invoked
  cancelled,       \* history: subscriptions unsubscribed or dropped by destroy
  selfCancelling,  \* subscriptions whose callback invokes its own unsubscribe closure
  \* ---- TokenService.getTokenPrices ----
  tNow,            \* Date.now() as seen by the token service
  tCache,          \* TokenService.priceCache : mint -> lastUpdated (-1: no entry)
  tPending,        \* getTokenPrices calls suspended at `await fetchJSON`
  tRet,            \* what the last completed getTokenPrices returned
  \* ---- fetchWithFallback ----
  fRetries,        \* options.retries of the running call
  fDelay,          \* options.retryDelay of the running call
  fAttempt,        \* the loop variable attempt
  fPc,             \* where the call is: idle, fetching, waiting, returned, thrown
  fWaits,          \* history: the delays of the setTimeout waits so far
  fThrown,         \* what the call threw: none, response (the 4xx error), final
  fLog,            \* history: the outcome of each attempt of the call
  \* ---- the WebSocketService singleton ----
  websocketServiceInstance, \* 0 (null) or the number of the instance it holds
  instances,       \* WebSocketService objects constructed so far
  monitors,        \* instances whose setInterval monitor is running
  destroyed,       \* destroy() has run on instance 1, the instance modelled in full
  \* ---- useWalletData ----
  walletConnected, \* `connected` of useWallet()
  isRefreshingRef, \* isRefreshingRef.current
  refreshes,       \* refreshData calls suspended at an upstream await
  nextRefresh,     \* number of the next refreshData call that passes the guard
  retryTimers,     \* pending 2-second setTimeout(() => refreshData(true)) timers
  wdLast           \* history: what the last step of the hook was

rlVars == <<rlNow, calls, admitted, rlLast, rlRet>>
wsVars == <<isConnected, reconnectAttempts, subscriptions, listeners, nextId,
            removeCalls, timers, passes, hookPc, hookTodo, hookAcc, hookRef,
            emitted, lastOp, connLog, ep, snap, failedSeen, held,
            invoked, sigListeners, nextSig>>
psVars == <<pNow, priceCache, pythReady, inflight, psSubs, updateIntervals,
            liveTimers, nextTimer, nextSub, pHandles, pRet, delivered,
            cancelled, selfCancelling>>
tsVars == <<tNow, tCache, tPending, tRet>>
fVars == <<fRetries, fDelay, fAttempt, fPc, fWaits, fThrown, fLog>>
instVars == <<websocketServiceInstance, instances, monitors, destroyed>>
wdVars == <<walletConnected, isRefreshingRef, refreshes, nextRefresh, retryTimers, wdLast>>
vars == <<rlVars, wsVars, psVars, tsVars, fVars, instVars, wdVars>>

\* what an operation of one component leaves alone in the others
rlOther == <<wsVars, psVars, tsVars, fVars, instVars, wdVars>>
wsOther == <<rlVars, psVars, tsVars, fVars, instVars, wdVars>>
psOther == <<rlVars, wsVars, tsVars, fVars, instVars, wdVars>>
tsOther == <<rlVars, wsVars, psVars, fVars, instVars, wdVars>>
fOther == <<rlVars, wsVars, psVars, tsVars, instVars, wdVars>>
instOther == <<rlVars, psVars, tsVars, fVars, wdVars>>
wdOther == <<rlVars, wsVars, psVars, tsVars, fVars, instVars>>

(***************************************************************************)
(* Generic helpers                                                         *)
(***************************************************************************)
RECURSIVE SeqFilterKey(_, _)
\* the sequence s without its entries of key k
SeqFilterKey(s, k) ==
  IF s = <<>> THEN <<>>
  ELSE IF Head(s).key = k THEN SeqFilterKey(Tail(s), k)
       ELSE <<Head(s)>> \o SeqFilterKey(Tail(s), k)

\* e occurs in the sequence s
Has(s, e) == \E i \in 1..Len(s) : s[i] = e

RECURSIVE Pow2(_)
Pow2(n) == IF n <= 0 THEN 1 ELSE 2 * Pow2(n - 1)

(***************************************************************************)
(* RateLimiter                                                             *)
(***************************************************************************)
RLMaxCalls == 2     \* constructor argument maxCalls
RLWindow   == 3     \* constructor argument timeWindowMs
RLMaxTime  == 7     \* the clock stops here

\* calls.filter(callTime => now - callTime < this.timeWindow)
RLPrune(cs, now) == SelectSeq(cs, LAMBDA t : now - t < RLWindow)

RLAdmits_Mut(cs) == Len(cs) <= RLMaxCalls
\* this.calls.length < this.maxCalls
RLAdmits(cs) == Len(cs) < RLMaxCalls

RLInit ==
  /\ rlNow = 0
  /\ calls = <<>>
  /\ admitted = <<>>
  /\ rlLast = "init"
  /\ rlRet = -1

\* time passes between two calls (Date.now() never goes back)
RLTick ==
  /\ UNCHANGED rlOther
  /\ rlNow < RLMaxTime
  /\ rlNow' = rlNow + 1
  /\ rlLast' = "tick"
  /\ UNCHANGED <<calls, admitted, rlRet>>

CanMakeCall ==
  /\ UNCHANGED rlOther
  /\ LET pruned == RLPrune(calls, rlNow) IN
     IF RLAdmits(pruned)
     THEN /\ calls' = Append(pruned, rlNow)
          /\ admitted' = Append(admitted, rlNow)
          /\ rlLast' = "admitted"
          /\ UNCHANGED rlNow
     ELSE /\ calls' = pruned
          /\ rlLast' = "denied"
          /\ UNCHANGED <<rlNow, admitted>>
  /\ UNCHANGED rlRet

GetRemainingCalls ==
  /\ UNCHANGED rlOther
  /\ calls' = RLPrune(calls, rlNow)
  /\ rlLast' = "remaining"
  /\ rlRet' = IF RLMaxCalls - Len(calls') > 0 THEN RLMaxCalls - Len(calls') ELSE 0
  /\ UNCHANGED <<rlNow, admitted>>

ResetTimeOf_Mut(cs) == IF cs = <<>> THEN 0 ELSE cs[Len(cs)] + RLWindow
\* if (this.calls.length === 0) return 0; return this.calls[0] + this.timeWindow
ResetTimeOf(cs) == IF cs = <<>> THEN 0 ELSE cs[1] + RLWindow

GetResetTime ==
  /\ UNCHANGED rlOther
  /\ rlLast' = "reset"
  /\ rlRet' = ResetTimeOf(calls)
  /\ UNCHANGED <<rlNow, calls, admitted>>

(***************************************************************************)
(* WebSocketService                                                        *)
(***************************************************************************)
maxReconnectAttempts == 5
reconnectDelay == 1000

MaxIds   == 5    \* upstream listener ids handed out
MaxLoops == 1    \* reconnection loops (timer or pass) pending at once
MaxOverlap == 2  \* the same, where overlapping loops are studied

NPositions == 1  \* active position accounts of the wallet
MaxSigs == 1     \* transaction signatures subscribed to

WalletKey == "W"
\* the PublicKeys of the active positions, in the order of the positions list
PositionKeys == SubSeq(<<"P1", "P2", "P3">>, 1, NPositions)
Keys == {WalletKey} \cup {PositionKeys[i] : i \in 1..NPositions}

Ids == 1..MaxIds

NoEp == [active |-> FALSE, waits |-> <<>>, cycles |-> 0, nFail |-> 0, nRecon |-> 0]

NoSnap == [st |-> "none", keys |-> {}]

RegKeys(reg) == {reg[i].key : i \in 1..Len(reg)}
RegIds(reg) == {reg[i].id : i \in 1..Len(reg)}

\* Map.set : an existing key keeps its place, a new key goes last
RegSet(reg, k, id) ==
  IF k \in RegKeys(reg)
  THEN [i \in 1..Len(reg) |-> IF reg[i].key = k THEN [key |-> k, id |-> id] ELSE reg[i]]
  ELSE Append(reg, [key |-> k, id |-> id])

\* Map.delete for every key of the handles hs
RECURSIVE RegDeleteAll(_, _)
RegDeleteAll(reg, ks) ==
  IF ks = {} THEN reg
  ELSE LET k == CHOOSE x \in ks : TRUE
       IN RegDeleteAll(SeqFilterKey(reg, k), ks \ {k})

Bump(rc, ids) == [i \in DOMAIN rc |-> IF i \in ids /\ rc[i] < 2 THEN rc[i] + 1 ELSE rc[i]]

\* the registry after subscriptions.set in subscribeToAccount
SubscribeStores_Mut(reg, k, id) == reg
SubscribeStores(reg, k, id) == RegSet(reg, k, id)

\* `if (!this.isConnected)` in the probe's success branch
ProbeSuccessActs_Mut == TRUE
ProbeSuccessActs == ~isConnected

\* `if (this.isConnected)` in the probe's failure branch
ProbeFailureActs_Mut == TRUE
ProbeFailureActs == isConnected

\* this.reconnectDelay * Math.pow(2, this.reconnectAttempts - 1), attempts already incremented
BackoffDelay(attempts) == reconnectDelay * Pow2(attempts - 1)

AttemptsExhausted_Mut(a) == a > maxReconnectAttempts
\* `if (this.reconnectAttempts >= this.maxReconnectAttempts)`
AttemptsExhausted(a) == a >= maxReconnectAttempts

\* handleReconnection up to its setTimeout; pre = events already emitted by the caller,
\* tm = timers pending once the caller's own timer (if any) is spent
HandleReconnection(pre, tm) ==
  IF AttemptsExhausted(reconnectAttempts)
  THEN /\ emitted' = pre \o <<"reconnection-failed">>
       /\ timers' = tm
       /\ UNCHANGED reconnectAttempts
  ELSE /\ reconnectAttempts' = reconnectAttempts + 1
       /\ timers' = tm + 1
       /\ emitted' = pre

\* history of handleReconnection for the undisturbed episode e
EpReconnection(e) ==
  IF ~e.active THEN NoEp
  ELSE IF AttemptsExhausted(reconnectAttempts)
       THEN [e EXCEPT !.nFail = IF @ < 2 THEN @ + 1 ELSE @]
       ELSE [e EXCEPT !.waits = Append(@, BackoffDelay(reconnectAttempts + 1))]

\* setInterval callback, getSlot() resolved
ProbeSuccess ==
  /\ UNCHANGED wsOther
  /\ lastOp' = "probeOk"
  /\ ep' = NoEp
  /\ IF ProbeSuccessActs
     THEN /\ isConnected' = TRUE
          /\ reconnectAttempts' = 0
          /\ emitted' = <<"connected">>
          /\ connLog' = "connected"
     ELSE /\ emitted' = <<>>
          /\ UNCHANGED <<isConnected, reconnectAttempts, connLog>>
  /\ UNCHANGED <<subscriptions, listeners, nextId, removeCalls, timers, passes,
                 hookPc, hookTodo, hookAcc, hookRef>>
  /\ UNCHANGED <<snap, failedSeen, held, invoked, sigListeners, nextSig>>

\* setInterval callback, getSlot() rejected; cap = the loops the model lets
\* be pending at once
ProbeFailureCapped(cap) ==
  /\ UNCHANGED wsOther
  /\ lastOp' = "probeFail"
  /\ IF ProbeFailureActs
     THEN /\ timers + Len(passes) < cap
          /\ isConnected' = FALSE
          /\ connLog' = "disconnected"
          /\ HandleReconnection(<<"disconnected">>, timers)
          /\ ep' = IF /\ timers = 0 /\ passes = <<>> /\ subscriptions # <<>>
                      /\ reconnectAttempts = 0 /\ hookPc = "idle"
                   THEN EpReconnection([NoEp EXCEPT !.active = TRUE])
                   ELSE NoEp
          /\ snap' = IF timers = 0 /\ passes = <<>> /\ hookPc = "idle"
                     THEN [NoSnap EXCEPT !.st = "armed"]
                     ELSE NoSnap
          /\ failedSeen' = (failedSeen \/ Has(emitted', "reconnection-failed"))
     ELSE /\ emitted' = <<>>
          /\ UNCHANGED <<isConnected, reconnectAttempts, connLog, timers, ep,
                         snap, failedSeen>>
  /\ UNCHANGED <<subscriptions, listeners, nextId, removeCalls, passes,
                 hookPc, hookTodo, hookAcc, hookRef>>
  /\ UNCHANGED <<held, invoked, sigListeners, nextSig>>

ProbeFailure == ProbeFailureCapped(MaxLoops)

\* the setTimeout callback of handleReconnection: snapshot, clear, then either
\* emit reconnected at once (nothing to restore) or suspend in the first
\* subscribeToAccount
FireTimer ==
  /\ UNCHANGED wsOther
  /\ timers > 0
  /\ lastOp' = "timer"
  /\ subscriptions' = <<>>
  /\ IF subscriptions = <<>>
     THEN /\ emitted' = <<"reconnected">>
          /\ passes' = passes
          /\ ep' = IF ep.active
                   THEN [ep EXCEPT !.cycles = @ + 1, !.nRecon = IF @ < 2 THEN @ + 1 ELSE @]
                   ELSE NoEp
     ELSE /\ emitted' = <<>>
          /\ passes' = Append(passes, [i \in 1..Len(subscriptions) |-> subscriptions[i].key])
          /\ ep' = IF ep.active THEN [ep EXCEPT !.cycles = @ + 1] ELSE NoEp
  /\ timers' = timers - 1
  /\ snap' = IF snap.st = "armed"
             THEN [st |-> "taken", keys |-> RegKeys(subscriptions)]
             ELSE snap
  /\ UNCHANGED <<isConnected, reconnectAttempts, listeners, nextId, removeCalls,
                 hookPc, hookTodo, hookAcc, hookRef, connLog>>
  /\ UNCHANGED <<failedSeen, held, invoked, sigListeners, nextSig>>

RemoveAt(s, i) == [j \in 1..(Len(s) - 1) |-> IF j < i THEN s[j] ELSE s[j + 1]]

\* `await this.subscribeToAccount(sub.publicKey, sub.callback)` of pass i resolved;
\* after the last one the pass emits reconnected
PassStepOk(i) ==
  /\ UNCHANGED wsOther
  /\ i \in 1..Len(passes)
  /\ nextId <= MaxIds
  /\ lastOp' = "resubOk"
  /\ LET k == Head(passes[i]) IN
     /\ listeners' = listeners \cup {[id |-> nextId, key |-> k]}
     /\ subscriptions' = SubscribeStores(subscriptions, k, nextId)
  /\ nextId' = nextId + 1
  /\ IF Tail(passes[i]) = <<>>
     THEN /\ emitted' = <<"reconnected">>
          /\ passes' = RemoveAt(passes, i)
     ELSE /\ emitted' = <<>>
          /\ passes' = [passes EXCEPT ![i] = Tail(@)]
  /\ ep' = NoEp
  /\ UNCHANGED <<isConnected, reconnectAttempts, removeCalls, timers,
                 hookPc, hookTodo, hookAcc, hookRef, connLog>>
  /\ UNCHANGED <<snap, failedSeen, held, invoked, sigListeners, nextSig>>

\* the same await rejected: the catch block calls handleReconnection again
PassStepFail(i) ==
  /\ UNCHANGED wsOther
  /\ i \in 1..Len(passes)
  /\ lastOp' = "resubFail"
  /\ passes' = RemoveAt(passes, i)
  /\ HandleReconnection(<<>>, timers)
  /\ ep' = EpReconnection(ep)
  /\ failedSeen' = (failedSeen \/ Has(emitted', "reconnection-failed"))
  /\ UNCHANGED <<isConnected, subscriptions, listeners, nextId, removeCalls,
                 hookPc, hookTodo, hookAcc, hookRef, connLog>>
  /\ UNCHANGED <<snap, held, invoked, sigListeners, nextSig>>

\* invoking the unsubscribe closures hs in one forEach: removeAccountChangeListener(id)
\* and subscriptions.delete(key) for each
InvokeHandles(hs) ==
  /\ listeners' = listeners \ hs
  /\ removeCalls' = Bump(removeCalls, {h.id : h \in hs})
  /\ subscriptions' = RegDeleteAll(subscriptions, {h.key : h \in hs})

\* useRealTimePositions.subscribeToPositions up to the first await: the handles
\* kept from the previous run are invoked and dropped
HookSubscribe ==
  /\ UNCHANGED wsOther
  /\ hookPc = "idle"
  /\ lastOp' = "hookSubscribe"
  /\ InvokeHandles(hookRef)
  /\ hookRef' = {}
  /\ hookPc' = "wallet"
  /\ emitted' = <<>>
  /\ ep' = NoEp
  /\ snap' = NoSnap
  /\ UNCHANGED <<isConnected, reconnectAttempts, nextId, timers, passes,
                 hookTodo, hookAcc, connLog>>
  /\ UNCHANGED <<failedSeen, held, invoked, sigListeners, nextSig>>

\* service.subscribeToWallet resolved: the handle is pushed and
\* service.subscribeToPositions starts
HookWalletOk ==
  /\ UNCHANGED wsOther
  /\ hookPc = "wallet"
  /\ nextId <= MaxIds
  /\ lastOp' = "hookWalletOk"
  /\ listeners' = listeners \cup {[id |-> nextId, key |-> WalletKey]}
  /\ subscriptions' = SubscribeStores(subscriptions, WalletKey, nextId)
  /\ hookRef' = hookRef \cup {[id |-> nextId, key |-> WalletKey]}
  /\ nextId' = nextId + 1
  /\ hookPc' = "positions"
  /\ hookTodo' = PositionKeys
  /\ hookAcc' = {}
  /\ emitted' = <<>>
  /\ ep' = NoEp
  /\ snap' = NoSnap
  /\ UNCHANGED <<isConnected, reconnectAttempts, removeCalls, timers, passes, connLog>>
  /\ UNCHANGED <<failedSeen, held, invoked, sigListeners, nextSig>>

\* service.subscribeToWallet rejected: the hook's catch ends the run
HookWalletFail ==
  /\ UNCHANGED wsOther
  /\ hookPc = "wallet"
  /\ lastOp' = "hookWalletFail"
  /\ hookPc' = "idle"
  /\ emitted' = <<>>
  /\ ep' = NoEp
  /\ snap' = NoSnap
  /\ UNCHANGED <<isConnected, reconnectAttempts, subscriptions, listeners, nextId,
                 removeCalls, timers, passes, hookTodo, hookAcc, hookRef, connLog>>
  /\ UNCHANGED <<failedSeen, held, invoked, sigListeners, nextSig>>

\* one iteration of the loop of service.subscribeToPositions; ok = the
\* subscribeToAccount call resolved (a rejection is logged and skipped). After
\* the last iteration the hook pushes the combined handle.
HookPosition(ok) ==
  /\ UNCHANGED wsOther
  /\ hookPc = "positions"
  /\ hookTodo # <<>>
  /\ lastOp' = "hookPosition"
  /\ LET k == Head(hookTodo)
         h == [id |-> nextId, key |-> k]
         acc == IF ok THEN hookAcc \cup {h} ELSE hookAcc
     IN /\ IF ok
           THEN /\ nextId <= MaxIds
                /\ listeners' = listeners \cup {h}
                /\ subscriptions' = SubscribeStores(subscriptions, k, nextId)
                /\ nextId' = nextId + 1
           ELSE UNCHANGED <<listeners, subscriptions, nextId>>
        /\ hookTodo' = Tail(hookTodo)
        /\ IF Tail(hookTodo) = <<>>
           THEN /\ hookRef' = hookRef \cup acc
                /\ hookAcc' = {}
                /\ hookPc' = "idle"
           ELSE /\ hookAcc' = acc
                /\ UNCHANGED <<hookRef, hookPc>>
  /\ emitted' = <<>>
  /\ ep' = NoEp
  /\ snap' = NoSnap
  /\ UNCHANGED <<isConnected, reconnectAttempts, removeCalls, timers, passes, connLog>>
  /\ UNCHANGED <<failedSeen, held, invoked, sigListeners, nextSig>>

\* the hook's effect when the wallet disconnects or there are no positions, and
\* its unmount cleanup: every kept handle is invoked and dropped
HookUnsubscribe ==
  /\ UNCHANGED wsOther
  /\ lastOp' = "hookUnsubscribe"
  /\ InvokeHandles(hookRef)
  /\ hookRef' = {}
  /\ emitted' = <<>>
  /\ ep' = NoEp
  /\ snap' = NoSnap
  /\ UNCHANGED <<isConnected, reconnectAttempts, nextId, timers, passes,
                 hookPc, hookTodo, hookAcc, connLog>>
  /\ UNCHANGED <<failedSeen, held, invoked, sigListeners, nextSig>>

\* a client of the service other than the hook runs subscribeToAccount(k, cb)
\* and keeps the closure it returns; ok = connection.onAccountChange resolved
ClientSubscribe(k, ok) ==
  /\ UNCHANGED wsOther
  /\ lastOp' = IF ok THEN "clientSubscribe" ELSE "clientSubscribeFail"
  /\ IF ok
     THEN /\ nextId <= MaxIds
          /\ listeners' = listeners \cup {[id |-> nextId, key |-> k]}
          /\ subscriptions' = SubscribeStores(subscriptions, k, nextId)
          /\ held' = held \cup {[id |-> nextId, key |-> k]}
          /\ nextId' = nextId + 1
     ELSE UNCHANGED <<listeners, subscriptions, held, nextId>>
  /\ emitted' = <<>>
  /\ ep' = NoEp
  /\ snap' = NoSnap
  /\ UNCHANGED <<isConnected, reconnectAttempts, removeCalls, timers, passes,
                 hookPc, hookTodo, hookAcc, hookRef, connLog>>
  /\ UNCHANGED <<failedSeen, invoked, sigListeners, nextSig>>

\* the client invokes a closure it holds, for the first time or again
ClientInvoke(h) ==
  /\ UNCHANGED wsOther
  /\ h \in held
  /\ lastOp' = IF h \in invoked THEN "invokeAgain" ELSE "invoke"
  /\ InvokeHandles({h})
  /\ invoked' = invoked \cup {h}
  /\ emitted' = <<>>
  /\ ep' = NoEp
  /\ snap' = NoSnap
  /\ UNCHANGED <<isConnected, reconnectAttempts, nextId, timers, passes,
                 hookPc, hookTodo, hookAcc, hookRef, connLog, held>>
  /\ UNCHANGED <<failedSeen, sigListeners, nextSig>>

\* subscribeToSignature(signature, onUpdate) as run by subscribeToTransaction:
\* ok = connection.onSignature resolved with a listener id (a rejection is
\* rethrown and the hook returns a no-op handle)
SubscribeToSignature(ok) ==
  /\ UNCHANGED wsOther
  /\ nextSig <= MaxSigs
  /\ lastOp' = IF ok THEN "sigOk" ELSE "sigFail"
  /\ IF ok
     THEN /\ sigListeners' = sigListeners \cup {nextSig}
          /\ nextSig' = nextSig + 1
     ELSE UNCHANGED <<sigListeners, nextSig>>
  /\ emitted' = <<>>
  /\ UNCHANGED <<isConnected, reconnectAttempts, subscriptions, listeners, nextId,
                 removeCalls, timers, passes, hookPc, hookTodo, hookAcc, hookRef,
                 connLog, ep, snap, failedSeen, held, invoked>>

\* the closure returned by subscribeToSignature: removeSignatureListener(id)
SignatureUnsubscribe(id) ==
  /\ UNCHANGED wsOther
  /\ id \in 1..(nextSig - 1)
  /\ lastOp' = "sigCancel"
  /\ sigListeners' = sigListeners \ {id}
  /\ emitted' = <<>>
  /\ UNCHANGED <<isConnected, reconnectAttempts, subscriptions, listeners, nextId,
                 removeCalls, timers, passes, hookPc, hookTodo, hookAcc, hookRef,
                 connLog, ep, snap, failedSeen, held, invoked, nextSig>>

MaxInstances == 2  \* WebSocketService objects constructed in one session

\* the singleton after the first getWebSocketService(connection): instance 1
\* exists and its constructor has started the monitor
InstInit ==
  /\ websocketServiceInstance = 1
  /\ instances = 1
  /\ monitors = {1}
  /\ destroyed = FALSE

\* destroyWebSocketService(): destroy() of the held instance (unsubscribeAll,
\* removeAllListeners), then the singleton is set to null. Nothing clears the
\* setInterval of the constructor or a pending backoff timer.
DestroyWebSocketService ==
  /\ UNCHANGED instOther
  /\ websocketServiceInstance # 0
  /\ lastOp' = "destroy"
  /\ IF websocketServiceInstance = 1
     THEN /\ InvokeHandles({subscriptions[i] : i \in 1..Len(subscriptions)})
          /\ destroyed' = TRUE
     ELSE UNCHANGED <<listeners, removeCalls, subscriptions, destroyed>>
  /\ websocketServiceInstance' = 0
  /\ emitted' = <<>>
  /\ ep' = NoEp
  /\ snap' = NoSnap
  /\ UNCHANGED <<instances, monitors>>
  /\ UNCHANGED <<isConnected, reconnectAttempts, nextId, timers, passes,
                 hookPc, hookTodo, hookAcc, hookRef, connLog>>
  /\ UNCHANGED <<failedSeen, held, invoked, sigListeners, nextSig>>

\* getWebSocketService(connection) while the singleton is null: a new
\* WebSocketService is constructed and its constructor starts a monitor
GetWebSocketService ==
  /\ UNCHANGED instOther
  /\ websocketServiceInstance = 0
  /\ instances < MaxInstances
  /\ lastOp' = "create"
  /\ instances' = instances + 1
  /\ websocketServiceInstance' = instances + 1
  /\ monitors' = monitors \cup {instances + 1}
  /\ emitted' = <<>>
  /\ UNCHANGED destroyed
  /\ UNCHANGED <<isConnected, reconnectAttempts, subscriptions, listeners, nextId,
                 removeCalls, timers, passes, hookPc, hookTodo, hookAcc, hookRef,
                 connLog, ep, snap, failedSeen, held, invoked, sigListeners, nextSig>>

WSInit ==
  /\ isConnected = FALSE
  /\ reconnectAttempts = 0
  /\ subscriptions = <<>>
  /\ listeners = {}
  /\ nextId = 1
  /\ removeCalls = [i \in Ids |-> 0]
  /\ timers = 0
  /\ passes = <<>>
  /\ hookPc = "idle"
  /\ hookTodo = <<>>
  /\ hookAcc = {}
  /\ hookRef = {}
  /\ emitted = <<>>
  /\ lastOp = "init"
  /\ connLog = "none"
  /\ ep = NoEp
  /\ snap = NoSnap
  /\ failedSeen = FALSE
  /\ held = {}
  /\ invoked = {}
  /\ sigListeners = {}
  /\ nextSig = 1

(***************************************************************************)
(* PriceService                                                            *)
(***************************************************************************)
cacheExpiry == 30000

PStep     == 15000  \* the clock advances in steps of PStep ms
PMaxNow   == 60000  \* the clock stops here
MaxInflight == 1    \* calls suspended at an upstream await at once
MaxSubs   == 3      \* PriceSubscription objects created

Mints == {"SOL", "XYZ"}
\* the mints of TOKEN_PYTH_MAPPING
PythMints == {"SOL"}

Num(v) == [nan |-> FALSE, v |-> v]
NaN == [nan |-> TRUE, v |-> 0]

\* what the Pyth client can hand back for a product: an exception, no usable
\* price (undefined or 0), or a price (in 1/100)
PythOutcomes == {[kind |-> "throw", v |-> 0], [kind |-> "nodata", v |-> 0],
                 [kind |-> "price", v |-> 14990]}

\* the price strings of a Jupiter response
JupRaw == {"150.25", "abc"}

\* parseFloat on the price string of the response (prices in 1/100)
ParseFloat(raw) ==
  CASE raw = "150.25" -> Num(15025)
    [] OTHER -> NaN

NoEntry == [mint |-> "", price |-> NaN, lastUpdated |-> -1, source |-> "none"]

PriceData(m, price, src) == [mint |-> m, price |-> price, lastUpdated |-> pNow, source |-> src]

IsFresh_Mut(c, m, now) == c[m] # NoEntry /\ now - c[m].lastUpdated <= cacheExpiry
\* cached && Date.now() - cached.lastUpdated.getTime() < this.cacheExpiry
IsFresh(c, m, now) == c[m] # NoEntry /\ now - c[m].lastUpdated < cacheExpiry

PythQueries_Mut(m) == FALSE
\* getPythPrice reaches pythClient.getData() only with a client and a feed id
PythQueries(m) == pythReady /\ m \in PythMints

NoRet == [name |-> "none", mint |-> "", ids |-> {}, entry |-> NoEntry,
          prices |-> <<>>, queries |-> <<>>, asked |-> {}, answered |-> {}]

\* a suspended call; stage names the await it is suspended at
Call(kind, m, stage, queries) ==
  [kind |-> kind, mint |-> m, stage |-> stage, queries |-> queries,
   ids |-> {}, uncached |-> {}, prices |-> <<>>]

\* a mint without a key in this.subscriptions; an interval id of 0 in
\* updateIntervals stands for a mint without a key there
NoList == [has |-> FALSE, list |-> <<>>]

PSInit ==
  /\ pNow = 0
  /\ priceCache = [m \in Mints |-> NoEntry]
  /\ pythReady \in BOOLEAN
  /\ inflight = <<>>
  /\ psSubs = [m \in Mints |-> NoList]
  /\ updateIntervals = [m \in Mints |-> 0]
  /\ liveTimers = {}
  /\ nextTimer = 1
  /\ nextSub = 1
  /\ pHandles = {}
  /\ pRet = NoRet
  /\ delivered = <<>>
  /\ cancelled = {}
  /\ selfCancelling = {}

\* time passes (Date.now() never goes back)
PTick ==
  /\ UNCHANGED psOther
  /\ UNCHANGED selfCancelling
  /\ pNow + PStep <= PMaxNow
  /\ pNow' = pNow + PStep
  /\ delivered' = <<>>
  /\ pRet' = NoRet
  /\ UNCHANGED <<priceCache, pythReady, inflight, psSubs, updateIntervals,
                 liveTimers, nextTimer, nextSub, pHandles, cancelled>>

\* the subscribers of m as the interval callback reads them:
\* this.subscriptions.get(mint) || []
SubsOf(m) == IF psSubs[m].has THEN psSubs[m].list ELSE <<>>

\* the interval callback after `await this.getPrice(mint)`: every current
\* subscriber is called if a price came back
TickDelivers_Mut(kind, m, entry) ==
  IF kind = "tick" /\ entry # NoEntry /\ SubsOf(m) # <<>> THEN <<Head(SubsOf(m))>> ELSE <<>>
TickDelivers(kind, m, entry) ==
  IF kind = "tick" /\ entry # NoEntry THEN SubsOf(m) ELSE <<>>

\* subs.splice(subs.indexOf(subscription), 1) when it is in the list
Splice(subs, sub) == SelectSeq(subs, LAMBDA x : x # sub)

CancelCleansUp_Mut(subs) == TRUE
\* `if (subs.length === 0)` of the unsubscribe closure
CancelCleansUp(subs) == Len(subs) = 0

\* subs.forEach(sub => sub.callback(price)) from index i on: forEach visits the
\* indices below the length it read at the start (len) that the array still
\* has, and the callback of a subscription in sc splices it out of the array
RECURSIVE ForEach(_, _, _, _, _)
ForEach(subs, i, len, sc, called) ==
  IF i > len \/ i > Len(subs)
  THEN [list |-> subs, called |-> called]
  ELSE ForEach(IF subs[i] \in sc THEN Splice(subs, subs[i]) ELSE subs,
               i + 1, len, sc, Append(called, subs[i]))

\* the end of the interval callback: the dispatch over the subscribers, with
\* the effect of the unsubscribe closures that the callbacks invoked
Dispatch(kind, m, entry) ==
  LET r == ForEach(TickDelivers(kind, m, entry), 1, Len(TickDelivers(kind, m, entry)),
                   selfCancelling, <<>>)
      gone == {r.called[j] : j \in 1..Len(r.called)} \cap selfCancelling
  IN /\ delivered' = r.called
     /\ cancelled' = cancelled \cup gone
     /\ IF gone = {}
        THEN UNCHANGED <<psSubs, updateIntervals, liveTimers>>
        ELSE IF CancelCleansUp(r.list)
             THEN /\ liveTimers' = IF updateIntervals[m] # 0
                                   THEN liveTimers \ {[id |-> updateIntervals[m], mint |-> m]}
                                   ELSE liveTimers
                  /\ updateIntervals' = [updateIntervals EXCEPT ![m] = 0]
                  /\ psSubs' = [psSubs EXCEPT ![m] = NoList]
             ELSE /\ psSubs' = [psSubs EXCEPT ![m] = [has |-> TRUE, list |-> r.list]]
                  /\ UNCHANGED <<liveTimers, updateIntervals>>

\* a step of getPrice that does not end an interval callback
NoDispatch ==
  /\ delivered' = <<>>
  /\ UNCHANGED <<psSubs, updateIntervals, liveTimers, cancelled>>

\* getPrice(m) up to its return or its first upstream await; kind is "getPrice"
\* for a caller of the service and "tick" for the interval callback
GetPriceBegin(kind, m) ==
  /\ IF IsFresh(priceCache, m, pNow)
     THEN /\ pRet' = [NoRet EXCEPT !.name = kind, !.mint = m, !.entry = priceCache[m]]
          /\ Dispatch(kind, m, priceCache[m])
          /\ UNCHANGED inflight
     ELSE /\ Len(inflight) < MaxInflight
          /\ inflight' = Append(inflight,
                           IF PythQueries(m) THEN Call(kind, m, "pyth", <<"pyth">>)
                           ELSE Call(kind, m, "jupiter", <<"jupiter">>))
          /\ NoDispatch
          /\ pRet' = NoRet
  /\ UNCHANGED <<pNow, priceCache, pythReady>>

\* a caller runs getPrice(m)
GetPrice(m) ==
  /\ UNCHANGED psOther
  /\ UNCHANGED selfCancelling
  /\ GetPriceBegin("getPrice", m)
  /\ UNCHANGED <<nextTimer, nextSub, pHandles>>

\* `await this.getPythPrice(mint)` of call i is over with outcome o
PythReturn(i, o) ==
  /\ UNCHANGED psOther
  /\ UNCHANGED selfCancelling
  /\ i \in 1..Len(inflight)
  /\ inflight[i].stage = "pyth"
  /\ LET c == inflight[i] IN
     /\ IF o.kind = "price"
        THEN LET e == PriceData(c.mint, Num(o.v), "pyth") IN
             /\ priceCache' = [priceCache EXCEPT ![c.mint] = e]
             /\ pRet' = [NoRet EXCEPT !.name = c.kind, !.mint = c.mint, !.entry = e,
                                      !.queries = c.queries]
             /\ Dispatch(c.kind, c.mint, e)
             /\ inflight' = RemoveAt(inflight, i)
        ELSE /\ inflight' = [inflight EXCEPT ![i] =
                               [c EXCEPT !.stage = "jupiter",
                                         !.queries = Append(@, "jupiter")]]
             /\ NoDispatch
             /\ pRet' = NoRet
             /\ UNCHANGED priceCache
  /\ UNCHANGED <<pNow, pythReady, nextTimer, nextSub, pHandles>>

\* what getJupiterPrice makes of the response: o.kind is "throw" (fetch or json
\* failed), "nodata" (no data for the mint) or "price" with the price string raw
JupiterEntry(m, o) ==
  IF o.kind = "price" THEN PriceData(m, ParseFloat(o.raw), "jupiter") ELSE NoEntry

JupOutcomes == {[kind |-> "throw", raw |-> ""], [kind |-> "nodata", raw |-> ""]}
               \cup {[kind |-> "price", raw |-> r] : r \in JupRaw}

\* `await this.getJupiterPrice(mint)` of call i is over with outcome o
JupiterReturn(i, o) ==
  /\ UNCHANGED psOther
  /\ UNCHANGED selfCancelling
  /\ i \in 1..Len(inflight)
  /\ inflight[i].stage = "jupiter"
  /\ LET c == inflight[i]
         e == JupiterEntry(c.mint, o)
     IN /\ priceCache' = IF e # NoEntry THEN [priceCache EXCEPT ![c.mint] = e]
                         ELSE priceCache
        /\ pRet' = [NoRet EXCEPT !.name = c.kind, !.mint = c.mint, !.entry = e,
                                 !.queries = c.queries]
        /\ Dispatch(c.kind, c.mint, e)
        /\ inflight' = RemoveAt(inflight, i)
  /\ UNCHANGED <<pNow, pythReady, nextTimer, nextSub, pHandles>>

\* a caller runs getPrices(ids) up to its return or its upstream await: the
\* fresh entries are copied to the result, the other mints go into one
\* getJupiterPrices call
GetPrices(ids) ==
  /\ UNCHANGED psOther
  /\ UNCHANGED selfCancelling
  /\ LET cached == {m \in ids : IsFresh(priceCache, m, pNow)}
         uncached == ids \ cached
         prices == [m \in cached |-> priceCache[m]]
     IN /\ delivered' = <<>>
        /\ IF uncached = {}
           THEN /\ pRet' = [NoRet EXCEPT !.name = "getPrices", !.ids = ids,
                                         !.prices = prices]
                /\ UNCHANGED inflight
           ELSE /\ Len(inflight) < MaxInflight
                /\ inflight' = Append(inflight,
                                 [Call("getPrices", "", "batch", <<"jupiter">>)
                                    EXCEPT !.ids = ids, !.uncached = uncached,
                                           !.prices = prices])
                /\ pRet' = NoRet
  /\ UNCHANGED <<pNow, priceCache, pythReady, psSubs, updateIntervals, liveTimers,
                 nextTimer, nextSub, pHandles, cancelled>>

\* the responses a batch call for the mints ms can get: the fetch fails, or
\* it brings price strings for any part of ms
BatchOutcomes(ms) ==
  {[ok |-> FALSE, raws |-> <<>>]} \cup
  {[ok |-> TRUE, raws |-> r] : r \in UNION {[S -> JupRaw] : S \in SUBSET ms}}

\* the map getJupiterPrices builds from the response o
JupiterPrices(mints, o) ==
  IF o.ok
  THEN [m \in (DOMAIN o.raws) \cap mints |-> PriceData(m, ParseFloat(o.raws[m]), "jupiter")]
  ELSE <<>>

JupiterPricesCatches_Mut == FALSE
\* the try/catch around fetch and response.json() in getJupiterPrices
JupiterPricesCatches == TRUE

\* the cache after `this.priceCache.set(mint, price)` for every fetched price
CacheMerge_Mut(c, fetched) == c
CacheMerge(c, fetched) == [m \in Mints |-> IF m \in DOMAIN fetched THEN fetched[m] ELSE c[m]]

\* `await this.getJupiterPrices(uncachedMints)` of call i is over
GetPricesReturn(i, o) ==
  /\ UNCHANGED psOther
  /\ UNCHANGED selfCancelling
  /\ i \in 1..Len(inflight)
  /\ inflight[i].stage = "batch"
  /\ LET c == inflight[i]
         fetched == JupiterPrices(c.uncached, o)
         prices == [m \in DOMAIN c.prices \cup DOMAIN fetched |->
                      IF m \in DOMAIN fetched THEN fetched[m] ELSE c.prices[m]]
     IN /\ IF ~o.ok /\ ~JupiterPricesCatches
           THEN /\ pRet' = [NoRet EXCEPT !.name = "getPricesThrow", !.ids = c.ids,
                                         !.queries = c.queries, !.asked = c.uncached]
                /\ UNCHANGED priceCache
           ELSE /\ priceCache' = CacheMerge(priceCache, fetched)
                /\ pRet' = [NoRet EXCEPT !.name = "getPrices", !.ids = c.ids,
                                         !.prices = prices, !.queries = c.queries,
                                         !.asked = c.uncached,
                                         !.answered = DOMAIN fetched]
        /\ inflight' = RemoveAt(inflight, i)
  /\ delivered' = <<>>
  /\ UNCHANGED <<pNow, pythReady, psSubs, updateIntervals, liveTimers, nextTimer,
                 nextSub, pHandles, cancelled>>

\* subscribe(m, callback): a new PriceSubscription is pushed; the interval is
\* set only if updateIntervals has none for m
SubscribeCallback(m, sc) ==
  /\ UNCHANGED psOther
  /\ selfCancelling' = IF sc THEN selfCancelling \cup {nextSub} ELSE selfCancelling
  /\ nextSub <= MaxSubs
  /\ psSubs' = [psSubs EXCEPT ![m] = [has |-> TRUE, list |-> Append(SubsOf(m), nextSub)]]
  /\ pHandles' = pHandles \cup {[sub |-> nextSub, mint |-> m]}
  /\ nextSub' = nextSub + 1
  /\ IF updateIntervals[m] = 0
     THEN /\ updateIntervals' = [updateIntervals EXCEPT ![m] = nextTimer]
          /\ liveTimers' = liveTimers \cup {[id |-> nextTimer, mint |-> m]}
          /\ nextTimer' = nextTimer + 1
     ELSE UNCHANGED <<updateIntervals, liveTimers, nextTimer>>
  /\ delivered' = <<>>
  /\ pRet' = NoRet
  /\ UNCHANGED <<pNow, priceCache, pythReady, inflight, cancelled>>

\* subscribe(m, callback) with a callback that only consumes the price
Subscribe(m) == SubscribeCallback(m, FALSE)

\* the unsubscribe closure h returned by subscribe is invoked
Cancel(h) ==
  /\ UNCHANGED psOther
  /\ UNCHANGED selfCancelling
  /\ h \in pHandles
  /\ LET m == h.mint
         subs == Splice(SubsOf(m), h.sub)
     IN IF CancelCleansUp(subs)
        THEN /\ liveTimers' = IF updateIntervals[m] # 0
                              THEN liveTimers \ {[id |-> updateIntervals[m], mint |-> m]}
                              ELSE liveTimers
             /\ updateIntervals' = [updateIntervals EXCEPT ![m] = 0]
             /\ psSubs' = [psSubs EXCEPT ![m] = NoList]
        ELSE /\ psSubs' = [psSubs EXCEPT ![m] = [has |-> psSubs[m].has, list |-> subs]]
             /\ UNCHANGED <<liveTimers, updateIntervals>>
  /\ delivered' = <<>>
  /\ pRet' = NoRet
  /\ cancelled' = cancelled \cup {h.sub}
  /\ UNCHANGED <<pNow, priceCache, pythReady, inflight, nextTimer, nextSub, pHandles>>

\* the interval t fires: its callback runs getPrice
TimerFire(t) ==
  /\ UNCHANGED psOther
  /\ UNCHANGED selfCancelling
  /\ t \in liveTimers
  /\ GetPriceBegin("tick", t.mint)
  /\ UNCHANGED <<nextTimer, nextSub, pHandles>>

\* PriceService.destroy()
PDestroy ==
  /\ UNCHANGED psOther
  /\ UNCHANGED selfCancelling
  /\ liveTimers' = liveTimers \ {[id |-> updateIntervals[m], mint |-> m] : m \in Mints}
  /\ updateIntervals' = [m \in Mints |-> 0]
  /\ psSubs' = [m \in Mints |-> NoList]
  /\ priceCache' = [m \in Mints |-> NoEntry]
  /\ pythReady' = FALSE
  /\ delivered' = <<>>
  /\ pRet' = NoRet
  /\ cancelled' = cancelled \cup {h.sub : h \in pHandles}
  /\ UNCHANGED <<pNow, inflight, nextTimer, nextSub, pHandles>>

(***************************************************************************)
(* TokenService.getTokenPrices                                             *)
(***************************************************************************)
tokenCacheExpiry == 300000  \* TokenService.cacheExpiry, 5 * 60 * 1000

TStep   == 150000   \* the clock advances in steps of TStep ms
TMaxNow == 750000   \* the clock stops here
MaxPending == 1     \* getTokenPrices calls suspended at once

\* cached && Date.now() - cached.lastUpdated.getTime() < this.cacheExpiry
TFresh(c, m, now) == c[m] # -1 /\ now - c[m] < tokenCacheExpiry

TStaleUsable_Mut(c, m, now) == c[m] # -1 /\ now - c[m] < tokenCacheExpiry
\* cached && Date.now() - cached.lastUpdated.getTime() < this.cacheExpiry * 2
TStaleUsable(c, m, now) == c[m] # -1 /\ now - c[m] < tokenCacheExpiry * 2

NoTRet == [name |-> "none", ids |-> {}, prices |-> <<>>, failed |-> FALSE]

TSInit ==
  /\ tNow = 0
  /\ tCache = [m \in Mints |-> -1]
  /\ tPending = <<>>
  /\ tRet = NoTRet

\* time passes (Date.now() never goes back)
TTick ==
  /\ UNCHANGED tsOther
  /\ tNow + TStep <= TMaxNow
  /\ tNow' = tNow + TStep
  /\ tRet' = NoTRet
  /\ UNCHANGED <<tCache, tPending>>

\* getTokenPrices(ids) up to its return or `await fetchJSON(...)`; an entry of
\* the result is the lastUpdated of the TokenPrice it holds
GetTokenPrices(ids) ==
  /\ UNCHANGED tsOther
  /\ LET cached == {m \in ids : TFresh(tCache, m, tNow)}
         uncached == ids \ cached
         prices == [m \in cached |-> tCache[m]]
     IN IF uncached = {}
        THEN /\ tRet' = [NoTRet EXCEPT !.name = "getTokenPrices", !.ids = ids,
                                       !.prices = prices]
             /\ UNCHANGED tPending
        ELSE /\ Len(tPending) < MaxPending
             /\ tPending' = Append(tPending, [ids |-> ids, uncached |-> uncached,
                                              prices |-> prices])
             /\ tRet' = NoTRet
  /\ UNCHANGED <<tNow, tCache>>

\* fetchJSON of call i resolved with data for the mints ms: each of them that
\* was asked for gets a TokenPrice stamped now, in the result and in the cache
TokenFetchOk(i, ms) ==
  /\ UNCHANGED tsOther
  /\ i \in 1..Len(tPending)
  /\ LET c == tPending[i]
         got == ms \cap c.uncached
     IN /\ tCache' = [m \in Mints |-> IF m \in got THEN tNow ELSE tCache[m]]
        /\ tRet' = [NoTRet EXCEPT !.name = "getTokenPrices", !.ids = c.ids,
                       !.prices = [m \in DOMAIN c.prices \cup got |->
                                     IF m \in got THEN tNow ELSE c.prices[m]]]
  /\ tPending' = [j \in 1..(Len(tPending) - 1) |->
                    IF j < i THEN tPending[j] ELSE tPending[j + 1]]
  /\ UNCHANGED tNow

\* fetchJSON of call i rejected (or the response could not be read): the catch
\* block returns the cached entries that are not older than twice the expiry
TokenFetchFail(i) ==
  /\ UNCHANGED tsOther
  /\ i \in 1..Len(tPending)
  /\ LET c == tPending[i]
         usable == {m \in c.ids : TStaleUsable(tCache, m, tNow)}
     IN tRet' = [NoTRet EXCEPT !.name = "getTokenPrices", !.ids = c.ids,
                   !.prices = [m \in usable |-> tCache[m]], !.failed = TRUE]
  /\ tPending' = [j \in 1..(Len(tPending) - 1) |->
                    IF j < i THEN tPending[j] ELSE tPending[j + 1]]
  /\ UNCHANGED <<tNow, tCache>>

TSNext ==
  \/ TTick
  \/ \E ids \in SUBSET Mints : GetTokenPrices(ids)
  \/ \E i \in 1..Len(tPending), ms \in SUBSET Mints : TokenFetchOk(i, ms)
  \/ \E i \in 1..Len(tPending) : TokenFetchFail(i)

(***************************************************************************)
(* fetchWithFallback                                                       *)
(***************************************************************************)
MaxRetries == 3    \* options.retries is 0..MaxRetries (3 is the default)

\* the values of options.retryDelay in use: the default
RetryDelays == {1000}

\* the ways one attempt can fail: the fetch rejects (network error or abort by
\* the timeout), the response is a 5xx, the response is a 4xx
FetchFailures == {"network", "5xx", "4xx"}

RetryWait_Mut(delay, attempt) == delay * Pow2(attempt)
\* retryDelay * (attempt + 1)
RetryWait(delay, attempt) == delay * (attempt + 1)

FInit ==
  /\ fRetries = 0
  /\ fDelay = 1000
  /\ fAttempt = 0
  /\ fPc = "idle"
  /\ fWaits = <<>>
  /\ fThrown = "none"
  /\ fLog = <<>>

\* fetchWithFallback(url, {retries, retryDelay}) is called and starts attempt 0
FetchStart(retries, delay) ==
  /\ UNCHANGED fOther
  /\ fPc \in {"idle", "returned", "thrown"}
  /\ fRetries' = retries
  /\ fDelay' = delay
  /\ fAttempt' = 0
  /\ fPc' = "fetching"
  /\ fWaits' = <<>>
  /\ fThrown' = "none"
  /\ fLog' = <<>>

\* the fetch of the current attempt resolved with an ok response
AttemptOk ==
  /\ UNCHANGED fOther
  /\ fPc = "fetching"
  /\ fPc' = "returned"
  /\ fLog' = Append(fLog, "ok")
  /\ UNCHANGED <<fRetries, fDelay, fAttempt, fWaits, fThrown>>

\* the current attempt failed in the way kind: the catch block
AttemptFail(kind) ==
  /\ UNCHANGED fOther
  /\ fPc = "fetching"
  /\ IF kind = "4xx"
     THEN /\ fPc' = "thrown"
          /\ fThrown' = "response"
          /\ UNCHANGED <<fAttempt, fWaits>>
     ELSE IF fAttempt = fRetries
          THEN /\ fPc' = "thrown"
               /\ fThrown' = "final"
               /\ UNCHANGED <<fAttempt, fWaits>>
          ELSE /\ fPc' = "waiting"
               /\ fWaits' = Append(fWaits, RetryWait(fDelay, fAttempt))
               /\ UNCHANGED <<fAttempt, fThrown>>
  /\ fLog' = Append(fLog, kind)
  /\ UNCHANGED <<fRetries, fDelay>>

\* the setTimeout of the wait fires: attempt++ and the next fetch starts
WaitDone ==
  /\ UNCHANGED fOther
  /\ fPc = "waiting"
  /\ fAttempt' = fAttempt + 1
  /\ fPc' = "fetching"
  /\ UNCHANGED <<fRetries, fDelay, fWaits, fThrown, fLog>>

FNext ==
  \/ \E r \in 0..MaxRetries, dl \in RetryDelays : FetchStart(r, dl)
  \/ AttemptOk
  \/ \E kind \in FetchFailures : AttemptFail(kind)
  \/ WaitDone

(***************************************************************************)
(* useWalletData.refreshData                                               *)
(***************************************************************************)
MaxRefreshes == 3    \* refreshData calls that pass the guard
MaxRetryTimers == 1  \* 2-second retry timers pending at once

WDInit ==
  /\ walletConnected = FALSE
  /\ isRefreshingRef = FALSE
  /\ refreshes = {}
  /\ nextRefresh = 1
  /\ retryTimers = 0
  /\ wdLast = "init"

\* refreshData(isRetry) as built by the render with `connected` = conn, up to
\* its return or its first upstream await. early = the address check or the
\* rate limiter throws before any request: catch and finally run at once.
RefreshBegin(conn, isRetry, early) ==
  IF ~conn \/ isRefreshingRef
  THEN /\ wdLast' = "skipped"
       /\ UNCHANGED <<isRefreshingRef, refreshes, nextRefresh>>
  ELSE /\ nextRefresh <= MaxRefreshes
       /\ nextRefresh' = nextRefresh + 1
       /\ IF early
          THEN /\ wdLast' = "rejected"
               /\ isRefreshingRef' = FALSE
               /\ UNCHANGED refreshes
          ELSE /\ wdLast' = "started"
               /\ isRefreshingRef' = TRUE
               /\ refreshes' = refreshes \cup {[id |-> nextRefresh, isRetry |-> isRetry]}

\* refreshData() called by the auto-refresh effect, its timer or the user
RefreshData(early) ==
  /\ UNCHANGED wdOther
  /\ RefreshBegin(walletConnected, FALSE, early)
  /\ UNCHANGED <<walletConnected, retryTimers>>

\* the 2-second timer fires: refreshData(true) of the render that started the
\* failed refresh, in which the wallet was connected
RetryFire(early) ==
  /\ UNCHANGED wdOther
  /\ retryTimers > 0
  /\ RefreshBegin(TRUE, TRUE, early)
  /\ retryTimers' = retryTimers - 1
  /\ UNCHANGED walletConnected

\* the awaits of refresh r resolved: the try block ends, finally clears the flag
RefreshDone(r) ==
  /\ UNCHANGED wdOther
  /\ r \in refreshes
  /\ wdLast' = "done"
  /\ refreshes' = refreshes \ {r}
  /\ isRefreshingRef' = FALSE
  /\ UNCHANGED <<walletConnected, nextRefresh, retryTimers>>

\* an await of refresh r rejected: catch (a retry timer for a connection error
\* of a first try), then finally clears the flag
RefreshFailed(r, isConnectionError) ==
  /\ UNCHANGED wdOther
  /\ r \in refreshes
  /\ wdLast' = "failed"
  /\ refreshes' = refreshes \ {r}
  /\ IF isConnectionError /\ ~r.isRetry
     THEN /\ retryTimers < MaxRetryTimers
          /\ retryTimers' = retryTimers + 1
     ELSE UNCHANGED retryTimers
  /\ isRefreshingRef' = FALSE
  /\ UNCHANGED <<walletConnected, nextRefresh>>

\* the wallet disconnects: the effect on `connected` clears the data, the flag
\* and the auto-refresh timer
WalletDisconnect ==
  /\ UNCHANGED wdOther
  /\ walletConnected
  /\ wdLast' = "disconnect"
  /\ walletConnected' = FALSE
  /\ isRefreshingRef' = FALSE
  /\ UNCHANGED <<refreshes, nextRefresh, retryTimers>>

\* the wallet connects
WalletConnect ==
  /\ UNCHANGED wdOther
  /\ ~walletConnected
  /\ wdLast' = "connect"
  /\ walletConnected' = TRUE
  /\ UNCHANGED <<isRefreshingRef, refreshes, nextRefresh, retryTimers>>

WDNext ==
  \/ \E early \in BOOLEAN : RefreshData(early)
  \/ \E early \in BOOLEAN : RetryFire(early)
  \/ \E r \in refreshes : RefreshDone(r)
  \/ \E r \in refreshes, ce \in BOOLEAN : RefreshFailed(r, ce)
  \/ WalletDisconnect
  \/ WalletConnect

\* the cache side of the service: callers of getPrice and getPrices, the clock
PCNext ==
  \/ PTick
  \/ \E m \in Mints : GetPrice(m)
  \/ \E i \in 1..Len(inflight), o \in PythOutcomes : PythReturn(i, o)
  \/ \E i \in 1..Len(inflight), o \in JupOutcomes : JupiterReturn(i, o)
  \/ \E ids \in SUBSET Mints : GetPrices(ids)
  \/ \E i \in 1..Len(inflight) : \E o \in BatchOutcomes(inflight[i].uncached) :
       GetPricesReturn(i, o)
  \/ PDestroy

\* the subscription side of the service: subscribers, their intervals and the
\* getPrice calls of the interval callbacks
\* the subscription side with callbacks that may cancel their own
\* subscription while they are being called
PDispatchNext ==
  \/ \E m \in Mints, sc \in BOOLEAN : SubscribeCallback(m, sc)
  \/ \E h \in pHandles : Cancel(h)
  \/ \E t \in liveTimers : TimerFire(t)
  \/ \E i \in 1..Len(inflight), o \in PythOutcomes : PythReturn(i, o)
  \/ \E i \in 1..Len(inflight), o \in JupOutcomes : JupiterReturn(i, o)

PSubNext ==
  \/ \E m \in Mints : Subscribe(m)
  \/ \E h \in pHandles : Cancel(h)
  \/ \E t \in liveTimers : TimerFire(t)
  \/ \E i \in 1..Len(inflight), o \in PythOutcomes : PythReturn(i, o)
  \/ \E i \in 1..Len(inflight), o \in JupOutcomes : JupiterReturn(i, o)
  \/ PDestroy

WSNext ==
  \/ ProbeSuccess
  \/ ProbeFailure
  \/ FireTimer
  \/ \E i \in 1..Len(passes) : PassStepOk(i)
  \/ \E i \in 1..Len(passes) : PassStepFail(i)
  \/ HookSubscribe
  \/ HookWalletOk
  \/ HookWalletFail
  \/ \E ok \in BOOLEAN : HookPosition(ok)
  \/ HookUnsubscribe

\* the subscribe operations of the service driven by a client that keeps the
\* closures it gets
WSApiNext ==
  \/ \E k \in Keys, ok \in BOOLEAN : ClientSubscribe(k, ok)
  \/ \E h \in held : ClientInvoke(h)
  \/ \E ok \in BOOLEAN : SubscribeToSignature(ok)
  \/ \E id \in 1..(nextSig - 1) : SignatureUnsubscribe(id)

\* the monitor and the reconnection loops it starts, over a registry filled by
\* a client
WSLoopsNext ==
  \/ ProbeSuccess
  \/ ProbeFailureCapped(MaxOverlap)
  \/ FireTimer
  \/ \E i \in 1..Len(passes) : PassStepOk(i)
  \/ \E i \in 1..Len(passes) : PassStepFail(i)
  \/ \E k \in Keys : ClientSubscribe(k, TRUE)

\* the life of the singleton: the monitor and loops of instance 1, a client
\* subscribing through a reference to it, destruction and re-creation
WSLifeNext ==
  \/ ProbeSuccess
  \/ ProbeFailure
  \/ FireTimer
  \/ \E i \in 1..Len(passes) : PassStepOk(i)
  \/ \E i \in 1..Len(passes) : PassStepFail(i)
  \/ ClientSubscribe(WalletKey, TRUE)
  \/ DestroyWebSocketService
  \/ GetWebSocketService

RLNext ==
  \/ RLTick
  \/ CanMakeCall
  \/ GetRemainingCalls
  \/ GetResetTime

(***************************************************************************)
(* Specifications                                                          *)
(***************************************************************************)
\* the price service of the other components' specifications has its client
InitRL == RLInit /\ WSInit /\ PSInit /\ TSInit /\ FInit /\ InstInit /\ WDInit /\ pythReady
InitWS == RLInit /\ WSInit /\ PSInit /\ TSInit /\ FInit /\ InstInit /\ WDInit /\ pythReady
InitPS == RLInit /\ WSInit /\ PSInit /\ TSInit /\ FInit /\ InstInit /\ WDInit
InitWD == InitRL
InitTS == InitRL
InitF == InitRL

SpecRL == InitRL /\ [][RLNext]_vars

SpecWS == InitWS /\ [][WSNext]_vars

\* the timers of setTimeout fire; nothing makes a pending upstream promise
\* (getSlot, onAccountChange) settle, the code sets no timeout on them
SpecWSLive == InitWS /\ [][WSNext]_vars /\ WF_vars(FireTimer)

SpecWSApi == InitWS /\ [][WSApiNext]_vars

SpecWSLoops == InitWS /\ [][WSLoopsNext]_vars

SpecWSLife == InitWS /\ [][WSLifeNext]_vars

SpecPC == InitPS /\ [][PCNext]_vars

SpecPSub == InitPS /\ [][PSubNext]_vars

SpecPDispatch == InitPS /\ [][PDispatchNext]_vars

SpecTS == InitTS /\ [][TSNext]_vars

SpecF == InitF /\ [][FNext]_vars

SpecWD == InitWD /\ [][WDNext]_vars

(***************************************************************************)
(* Properties                                                              *)
(***************************************************************************)
RegEntries(reg) == {reg[i] : i \in 1..Len(reg)}

\* C1: the calls that returned true inside any trailing window (t - RLWindow, t]
\* number at most RLMaxCalls, and the stored list never holds more than
\* RLMaxCalls timestamps.
C1_RateLimit ==
  /\ Len(calls) <= RLMaxCalls
  /\ \A t \in 0..rlNow :
       Cardinality({i \in 1..Len(admitted) :
                      admitted[i] <= t /\ t - admitted[i] < RLWindow}) <= RLMaxCalls

\* a call was denied at full budget after older calls had already left the window
C1_Witness ==
  /\ rlLast = "denied"
  /\ Len(admitted) > RLMaxCalls
  /\ Len(calls) = RLMaxCalls

\* C2: an undisturbed disconnect episode in which no probe and no
\* re-subscription ever succeeds never emits reconnected, and when its loop has
\* stopped it has run 5 cycles after waits of 1000, 2000, 4000, 8000, 16000 ms
\* and emitted reconnection-failed exactly once.
C2_FiveCyclesThenFailed ==
  ep.active =>
    /\ ep.nRecon = 0
    /\ (timers = 0 /\ passes = <<>>) =>
         /\ ep.waits = <<1000, 2000, 4000, 8000, 16000>>
         /\ ep.cycles = 5
         /\ ep.nFail = 1

\* C3: the teardown of a reconnection pass invokes the cancellation handle of
\* every registry entry exactly once, so that none of their upstream listeners
\* stays live.
C3_TeardownInvokesHandles ==
  [][lastOp' = "timer" =>
       \A e \in RegEntries(subscriptions) :
         /\ removeCalls'[e.id] = removeCalls[e.id] + 1
         /\ e \notin listeners']_vars

\* C4: whenever the registry entry of a key is replaced by a new subscription,
\* the upstream listener of the replaced entry has been removed.
C4_ReplaceCancelsPrior ==
  [][\A e \in RegEntries(subscriptions), f \in RegEntries(subscriptions') :
       (e.key = f.key /\ e.id # f.id) => e \notin listeners']_vars

\* C5: connected is emitted only by a probe success in a state that is not
\* connected, disconnected only by a probe failure in a connected state (which
\* also starts the reconnection); the two events alternate, and a probe success
\* while connected or a probe failure while not connected emits nothing.
C5_EdgeTriggered ==
  [][/\ Has(emitted', "connected") =>
          /\ lastOp' = "probeOk" /\ ~isConnected /\ isConnected'
          /\ connLog # "connected"
     /\ Has(emitted', "disconnected") =>
          /\ lastOp' = "probeFail" /\ isConnected /\ ~isConnected'
          /\ connLog = "connected"
          /\ (timers' = timers + 1 \/ Has(emitted', "reconnection-failed"))
     /\ (lastOp' = "probeOk" /\ ~isConnected) => emitted' = <<"connected">>
     /\ (lastOp' = "probeFail" /\ isConnected) => Head(emitted') = "disconnected"
     /\ (lastOp' = "probeOk" /\ isConnected) =>
          (emitted' = <<>> /\ isConnected' /\ timers' = timers)
     /\ (lastOp' = "probeFail" /\ ~isConnected) =>
          (emitted' = <<>> /\ ~isConnected' /\ timers' = timers)]_vars

\* a second probe success in a row found the service connected and emitted nothing
C5_Witness ==
  /\ lastOp = "probeOk"
  /\ emitted = <<>>
  /\ isConnected
  /\ connLog = "connected"

\* the subscribers of m that were created and neither unsubscribed nor dropped
CurrentSubs(m) == {h.sub : h \in {x \in pHandles : x.mint = m}} \ cancelled
SeqSet(q) == {q[i] : i \in 1..Len(q)}
LiveOf(m) == {t \in liveTimers : t.mint = m}

\* C6: a mint has exactly one live polling interval while it has a current
\* subscriber and none otherwise, the service's list holds exactly the current
\* subscribers, and a tick that resolves to a price calls each of them once.
C6_SharedTimer ==
  /\ \A m \in Mints :
       /\ SeqSet(SubsOf(m)) = CurrentSubs(m)
       /\ Len(SubsOf(m)) = Cardinality(CurrentSubs(m))
       /\ IF CurrentSubs(m) # {}
          THEN /\ Cardinality(LiveOf(m)) = 1
               /\ updateIntervals[m] # 0
               /\ LiveOf(m) = {[id |-> updateIntervals[m], mint |-> m]}
          ELSE /\ LiveOf(m) = {}
               /\ updateIntervals[m] = 0
  /\ (pRet.name = "tick" /\ pRet.entry # NoEntry) =>
       /\ SeqSet(delivered) = CurrentSubs(pRet.mint)
       /\ Len(delivered) = Cardinality(CurrentSubs(pRet.mint))
  /\ (pRet.name # "tick" \/ pRet.entry = NoEntry) => delivered = <<>>

\* of two subscribers of a mint one has unsubscribed; the interval still runs
\* and a tick has just called the other one
C6_Witness ==
  \E m \in Mints :
    /\ Cardinality(CurrentSubs(m)) = 1
    /\ \E h \in pHandles : h.mint = m /\ h.sub \in cancelled
    /\ LiveOf(m) # {}
    /\ pRet.name = "tick" /\ pRet.mint = m
    /\ SeqSet(delivered) = CurrentSubs(m)

NotFreshAt(c, m, now) == c[m] = NoEntry \/ now - c[m].lastUpdated >= 30000

\* C7: getPrices makes at most one upstream batch call, asks it exactly for
\* the requested mints without a fresh cache entry, makes none when every
\* requested mint is fresh, and writes every entry the batch returned to the
\* cache.
C7_OneScopedBatch ==
  [][/\ Len(inflight') > Len(inflight) =>
          LET c == inflight'[Len(inflight')] IN
          c.kind = "getPrices" =>
            /\ c.queries = <<"jupiter">>
            /\ c.uncached = {m \in c.ids : NotFreshAt(priceCache, m, pNow)}
            /\ c.uncached # {}
     /\ (pRet'.name = "getPrices") =>
          /\ Len(pRet'.queries) <= 1
          /\ pRet'.queries = <<>> =>
               /\ \A m \in pRet'.ids : ~NotFreshAt(priceCache, m, pNow)
               /\ inflight' = inflight /\ priceCache' = priceCache
          /\ pRet'.asked \subseteq pRet'.ids
          /\ \A m \in (DOMAIN pRet'.prices) \cap pRet'.asked :
               /\ priceCache'[m] = pRet'.prices[m]
               /\ pRet'.prices[m].source = "jupiter"
               /\ pRet'.prices[m].lastUpdated = pNow]_vars

\* getPrices for both mints found one of them fresh in the cache and fetched
\* the other one alone
C7_Witness ==
  /\ pRet.name = "getPrices"
  /\ pRet.ids = Mints
  /\ Cardinality(pRet.asked) = 1
  /\ DOMAIN pRet.prices = Mints
  /\ pRet.queries = <<"jupiter">>

\* C8: a getPrice that misses the cache tries the oracle first and the
\* aggregator only after the oracle gave nothing; the source that succeeds
\* stores its entry under its own tag; a getPrice that finds a fresh entry
\* returns it and makes no upstream query.
C8_PriorityAndCaching ==
  [][/\ Len(inflight') > Len(inflight) =>
          LET c == inflight'[Len(inflight')] IN
          c.kind \in {"getPrice", "tick"} =>
            /\ NotFreshAt(priceCache, c.mint, pNow)
            /\ c.queries = IF pythReady /\ c.mint \in PythMints
                           THEN <<"pyth">> ELSE <<"jupiter">>
     /\ \A i \in 1..Len(inflight') :
          inflight'[i].kind \in {"getPrice", "tick"} =>
            inflight'[i].queries \in
              (IF inflight'[i].mint \in PythMints
               THEN {<<"pyth">>, <<"pyth", "jupiter">>, <<"jupiter">>}
               ELSE {<<"jupiter">>})
     /\ (pRet'.name \in {"getPrice", "tick"}) =>
          IF pRet'.queries = <<>>
          THEN /\ pRet'.entry = priceCache[pRet'.mint]
               /\ ~NotFreshAt(priceCache, pRet'.mint, pNow)
               /\ priceCache' = priceCache
               /\ inflight' = inflight
          ELSE pRet'.entry # NoEntry =>
                 /\ pRet'.entry.source = pRet'.queries[Len(pRet'.queries)]
                 /\ pRet'.entry.mint = pRet'.mint
                 /\ priceCache'[pRet'.mint] = pRet'.entry
                 /\ pRet'.entry.lastUpdated = pNow]_vars

\* the oracle gave nothing for SOL, the aggregator answered 150.25, and the
\* entry tagged jupiter is in the cache
C8_Witness ==
  /\ pRet.name = "getPrice"
  /\ pRet.mint = "SOL"
  /\ pRet.queries = <<"pyth", "jupiter">>
  /\ pRet.entry.price = Num(15025)
  /\ pRet.entry.source = "jupiter"
  /\ priceCache["SOL"] = pRet.entry

C10_DegradedRead ==
  (pRet.name \in {"getPrice", "tick"} /\ pRet.queries # <<>> /\ pRet.entry = NoEntry) =>
    ~(/\ priceCache[pRet.mint] # NoEntry
      /\ pNow - priceCache[pRet.mint].lastUpdated < 2 * cacheExpiry)

\* C11: getPrices always returns a map and never throws; the keys of the map
\* are exactly the requested mints that were fresh in the cache when the call
\* started or that the batch response had data for, and a call for which
\* nothing was cached and the upstream failed returns the empty map.
C11_PartialMap ==
  [][/\ pRet'.name # "getPricesThrow"
     /\ (pRet'.name = "getPrices" /\ pRet'.queries # <<>>) =>
          /\ pRet'.answered \subseteq pRet'.asked
          /\ DOMAIN pRet'.prices = (pRet'.ids \ pRet'.asked) \cup pRet'.answered
          /\ \A m \in DOMAIN pRet'.prices : pRet'.prices[m].mint = m
          /\ (pRet'.asked = pRet'.ids /\ pRet'.answered = {}) => pRet'.prices = <<>>
     /\ (pRet'.name = "getPrices" /\ pRet'.queries = <<>>) =>
          DOMAIN pRet'.prices = pRet'.ids]_vars

\* getPrices for both mints with an empty cache and a failed batch call
\* returned the empty map
C11_Witness ==
  /\ pRet.name = "getPrices"
  /\ pRet.ids = Mints
  /\ pRet.asked = Mints
  /\ pRet.answered = {}
  /\ pRet.prices = <<>>
  /\ \A m \in Mints : priceCache[m] = NoEntry

\* C12: when reconnected is emitted in an episode whose registry only the
\* reconnection itself has touched, the registry holds exactly the keys the
\* first teardown of the episode captured.
C12_SnapshotRestored ==
  [][(Has(emitted', "reconnected") /\ snap'.st = "taken") =>
       RegKeys(subscriptions') = snap'.keys]_vars

\* C13: in the state right after reconnected is emitted reconnectAttempts is 0.
C13_ResetOnReconnect ==
  [][Has(emitted', "reconnected") => reconnectAttempts' = 0]_vars

\* C14: invoking an unsubscribe closure of subscribeToAccount again leaves the
\* registry and the upstream listeners as they are.
C14_HandleIdempotent ==
  [][lastOp' = "invokeAgain" =>
       /\ subscriptions' = subscriptions
       /\ listeners' = listeners]_vars

\* C15: a successful subscribeToSignature adds an entry to the registry, so
\* that the subscription count grows by one.
C15_SignatureRegistered ==
  [][(lastOp' = "sigOk" /\ sigListeners' # sigListeners) =>
       Len(subscriptions') = Len(subscriptions) + 1]_vars

\* C16: once reconnection-failed has been emitted the service emits neither
\* connected nor reconnected and sets no further reconnection timer.
C16_FailedIsTerminal ==
  [][failedSeen =>
       /\ ~Has(emitted', "connected")
       /\ ~Has(emitted', "reconnected")
       /\ timers' <= timers]_vars

\* C17: every entry of the price cache, and every entry a call returns, has a
\* finite price that is not negative.
C17_FinitePrices ==
  /\ \A m \in Mints :
       priceCache[m] # NoEntry => (~priceCache[m].price.nan /\ priceCache[m].price.v >= 0)
  /\ pRet.entry # NoEntry => (~pRet.entry.price.nan /\ pRet.entry.price.v >= 0)
  /\ \A m \in DOMAIN pRet.prices :
       ~pRet.prices[m].price.nan /\ pRet.prices[m].price.v >= 0

UpstreamIssued ==
  \/ Len(inflight') > Len(inflight)
  \/ \E i \in 1..Len(inflight) :
       /\ i <= Len(inflight')
       /\ inflight[i].stage = "pyth"
       /\ inflight'[i].stage = "jupiter"

\* C20: every request the price service sends to a price source was admitted
\* by canMakeCall of the rate limiter in the same operation.
C20_RespectsRateLimiter ==
  [][UpstreamIssued => Len(admitted') = Len(admitted) + 1]_vars

\* C19: every disconnected event is eventually followed by reconnected or
\* reconnection-failed, whatever the upstream does.
C19_EpisodeTerminates ==
  Has(emitted, "disconnected") ~>
    (Has(emitted, "reconnected") \/ Has(emitted, "reconnection-failed"))

\* C21: reconnectAttempts is within 0..maxReconnectAttempts in every state.
C21_AttemptsBounded ==
  reconnectAttempts \in 0..maxReconnectAttempts

\* the fifth re-subscription failure in a row found the counter at its
\* maximum and emitted reconnection-failed
C21_Witness ==
  /\ reconnectAttempts = maxReconnectAttempts
  /\ lastOp = "resubFail"
  /\ Has(emitted, "reconnection-failed")

\* the admitted calls that are inside the window at time now
InWindow(now) == {i \in 1..Len(admitted) : now - admitted[i] < RLWindow}

\* the parts of C22 about canMakeCall and getRemainingCalls: a denied call
\* records no timestamp, getRemainingCalls returns RLMaxCalls minus the number
\* of admitted calls inside the window, and no query changes what a later
\* canMakeCall finds after its pruning
QueriesKeepDecisions ==
  /\ rlLast' = "denied" =>
       /\ admitted' = admitted
       /\ calls' = RLPrune(calls, rlNow)
  /\ rlLast' = "remaining" =>
       /\ rlRet' = RLMaxCalls - Cardinality(InWindow(rlNow))
       /\ admitted' = admitted
  /\ rlLast' \in {"denied", "remaining", "reset"} =>
       \A t \in rlNow..RLMaxTime : RLPrune(calls', t) = RLPrune(calls, t)

\* C22 (amended): the limiter's queries leave every later admission decision
\* alone, and getResetTime returns the oldest timestamp of the stored list plus
\* the window, whether or not that call is still inside the window, and 0 when
\* the list is empty.
C22_QueriesDerived ==
  [][/\ QueriesKeepDecisions
     /\ rlLast' = "reset" =>
          /\ calls' = calls
          /\ rlRet' = IF calls = <<>> THEN 0 ELSE Head(calls) + RLWindow]_vars

\* getResetTime returned a time that has already passed: the oldest stored
\* call has left the window and was not pruned yet
C22_Witness ==
  /\ rlLast = "reset"
  /\ rlRet > 0
  /\ rlRet <= rlNow
  /\ InWindow(rlNow) = {}

\* C22 (as stated): as above, but getResetTime returns the timestamp of the
\* oldest admitted call still inside the window plus the window, and 0 when no
\* call is inside the window.
C22_ResetFromWindow ==
  [][/\ QueriesKeepDecisions
     /\ rlLast' = "reset" =>
          rlRet' = IF InWindow(rlNow) = {} THEN 0
                   ELSE admitted[CHOOSE i \in InWindow(rlNow) :
                                   \A j \in InWindow(rlNow) : i <= j] + RLWindow]_vars

\* C23: getTokenPrices always returns a map; when its fetch failed the keys of
\* the map are exactly the requested mints whose cache entry is younger than
\* twice the expiry at that time, each with its cached entry, and the cache is
\* left as it was.
C23_StaleFallback ==
  [][(tRet'.name = "getTokenPrices" /\ tRet'.failed) =>
       /\ DOMAIN tRet'.prices =
            {m \in tRet'.ids : tCache[m] # -1 /\ tNow - tCache[m] < 2 * tokenCacheExpiry}
       /\ \A m \in DOMAIN tRet'.prices : tRet'.prices[m] = tCache[m]
       /\ tCache' = tCache]_vars

\* a failed fetch for both mints returned the entry that was 450000 ms old and
\* left out the one that was 600000 ms old
C23_Witness ==
  /\ tRet.name = "getTokenPrices"
  /\ tRet.failed
  /\ tRet.ids = Mints
  /\ \E m \in Mints : /\ DOMAIN tRet.prices = {m}
                        /\ tNow - tCache[m] = 450000
                        /\ \E n \in Mints \ {m} : tNow - tCache[n] = 600000

\* C24: the wait before attempt k+1 is twice the wait before attempt k, a 4xx
\* response ends the call at once with that error and without a wait, a call
\* makes at most retries + 1 attempts and throws the final FetchError only
\* after the last of them failed.
C24_ExponentialBackoff ==
  /\ \A k \in 2..Len(fWaits) : fWaits[k] = 2 * fWaits[k - 1]
  /\ Len(fWaits) <= fRetries
  /\ fAttempt <= fRetries
  /\ fThrown = "final" => (fAttempt = fRetries /\ Len(fWaits) = fRetries)
  /\ fThrown = "response" => fPc = "thrown"

\* C25: at most one reconnection loop (a pending backoff timer or a suspended
\* re-subscription pass) exists at any time.
C25_OneLoop == timers + Len(passes) <= 1

\* C26: the upstream account-change listeners that were created and not yet
\* removed are exactly the listeners whose ids the subscription registry holds.
C26_NoListenerLeak == {l.id : l \in listeners} = RegIds(subscriptions)

\* C27: once destroy() has run on the service, no step of it is a liveness
\* probe, the start of a re-subscription pass or a re-subscription; and at
\* most one monitor is running at any time of the session.
C27_QuiescentAfterDestroy ==
  [][/\ destroyed => lastOp' \notin {"probeOk", "probeFail", "timer", "resubOk", "resubFail"}
     /\ Cardinality(monitors') <= 1]_vars

\* C28: the step that emits reconnected leaves the service connected.
C28_ReconnectedWhenConnected == Has(emitted, "reconnected") => isConnected

\* C29: a tick that resolves to a price invokes every subscription that is in
\* the asset's list when the dispatch starts exactly once, and only those, also
\* when a callback cancels its own subscription during the dispatch; and no
\* step invokes a subscription that was cancelled before the step.
C29_DispatchComplete ==
  [][/\ (pRet'.name = "tick" /\ pRet'.entry # NoEntry) =>
          /\ SeqSet(delivered') = SeqSet(SubsOf(pRet'.mint))
          /\ Len(delivered') = Len(SubsOf(pRet'.mint))
     /\ SeqSet(delivered') \cap cancelled = {}]_vars

\* C30: at most one refreshData call is in flight at any time, and while one
\* is in flight the flag it set is still set.
C30_MutualExclusion ==
  /\ Cardinality(refreshes) <= 1
  /\ refreshes # {} => isRefreshingRef

====
